---- MODULE Spec2Model ----
(***************************************************************************)
(* The scene-build stage of the Pathfinder renderer                        *)
(* (renderer/src/builder.rs): SceneBuilder::build_sequentially and         *)
(* build_in_parallel, cull_alpha_tiles, pack_alpha_tiles and build_object. *)
(* The Tiler, the shared buffers and the z-buffer are collaborators whose  *)
(* code is not part of builder.rs; they are modelled from the written      *)
(* specification.                                                          *)
(***************************************************************************)
EXTENDS Integers, Sequences, FiniteSets, TLC

VARIABLES
    scene,             \* self.scene.objects: a sequence of object shapes
    mode,              \* "sequential" | "parallel": which build_* was called
    phase,             \* position of the calling thread in build_*
    object_index,      \* loop variable of build_sequentially (line 61)
    worker,            \* per object: "todo" | "running" | "done"
    pc,                \* per object: Tiler operations already performed
    fills,             \* buffers.fills
    alpha_tiles,       \* buffers.alpha_tiles
    z_buffer,          \* buffers.z_buffer: tile -> depth (0: no solid cover)
    alpha_tile_index,  \* loop variable of cull_alpha_tiles (line 124)
    stream,            \* the commands the listener has received, in order
    narrowed,          \* IdSpec: the (index, identifier) pairs of the evaluations of
                       \* "object_index as u16" on sampled indices
    render_options,    \* PrepareSpec: the RenderOptions being prepared (self)
    bounds,            \* PrepareSpec: the argument of prepare
    clipper,           \* PrepareSpec: whether PolygonClipper3D ran, and its result
    prepared           \* PrepareSpec: the PreparedRenderOptions returned

\* The variables the build leaves alone.
aux == <<narrowed, render_options, bounds, clipper, prepared>>

vars == <<scene, mode, phase, object_index, worker, pc, fills, alpha_tiles,
          z_buffer, alpha_tile_index, stream,
          narrowed, render_options, bounds, clipper, prepared>>

-----------------------------------------------------------------------------
(* Bounds of the model. *)

\* The largest number of objects in a scene.
MaxObjects == 2

\* PackSpec: the largest number of whole fill batches already in the buffer.
MaxBatches == 2

\* How far around each boundary (a whole fill batch, the range of u16) the
\* fill counts and the object indices are drawn.
Slack == 2

\* PrepareSpec: the largest number of vertices the clipper returns for a
\* quad that crosses the view volume.
MaxClipVertices == 5

-----------------------------------------------------------------------------
(* Program constants. *)

MAX_FILLS_PER_BATCH == 4096

\* The byte a culled record's coordinate fields are overwritten with.
SENTINEL == 255

U16 == 2 ^ 16

\* The width of a u32.  Every u32 of the model stays below 2^31.
U32Bits == 32

-----------------------------------------------------------------------------
(* The view box: the tiles of the effective view box, in tile-index        *)
(* (row-major) order.  A tile coordinate is <<x, y>>.                      *)

TileSeq == << <<0, 0>>, <<1, 0>> >>

Tiles == {TileSeq[k] : k \in 1..Len(TileSeq)}

RECURSIVE SeqSum(_)
SeqSum(s) == IF s = <<>> THEN 0 ELSE Head(s) + SeqSum(Tail(s))

RECURSIVE Flatten(_)
Flatten(ss) == IF ss = <<>> THEN <<>> ELSE Head(ss) \o Flatten(Tail(ss))

Range(s) == {s[k] : k \in 1..Len(s)}

\* The multiset of the elements of a sequence.
BagOf(s) == [x \in Range(s) |-> Cardinality({k \in 1..Len(s) : s[k] = x})]

-----------------------------------------------------------------------------
(* Scene objects.  What the Tiler makes of one object's outline is, per    *)
(* tile of the view box: nothing, a solid tile, or an alpha tile with a    *)
(* number of fill spans.                                                   *)

NoTile == [kind |-> "none", fills |-> 0]
SolidShape == [kind |-> "solid", fills |-> 0]
AlphaShape(n) == [kind |-> "alpha", fills |-> n]

\* The object shapes of the scenes of Spec.
Shapes == [Tiles -> {NoTile, SolidShape, AlphaShape(1)}]

Scenes == UNION {[1..n -> Shapes] : n \in 0..MaxObjects}

\* The operations generate_tiles performs for the k-th tile of the view box.
TileOps(shape, k) ==
    LET c == TileSeq[k]
        t == shape[c]
    IN  CASE t.kind = "solid" -> << [kind |-> "solid", tile |-> c, arg |-> 0] >>
          [] t.kind = "alpha" ->
                << [kind |-> "alpha", tile |-> c, arg |-> k] >>
                \o [j \in 1..t.fills |-> [kind |-> "fill", tile |-> c, arg |-> j]]
          [] OTHER -> << >>

\* The operations of one run of generate_tiles on an object.
Script(shape) == Flatten([k \in 1..Len(TileSeq) |-> TileOps(shape, k)])

ScriptLen(shape) ==
    SeqSum([k \in 1..Len(TileSeq) |->
              CASE shape[TileSeq[k]].kind = "solid" -> 1
                [] shape[TileSeq[k]].kind = "alpha" -> 1 + shape[TileSeq[k]].fills
                [] OTHER -> 0])

-----------------------------------------------------------------------------
(* Collaborators: alpha-tile records, the z-buffer, the shared buffers and *)
(* the Tiler.                                                              *)

\* An alpha-tile record for tile c: the coordinate is split into two low
\* bytes and one byte holding the high nibbles of x and y.
AlphaTile(c, backdrop, id) ==
    [tile_x_lo    |-> c[1] % 256,
     tile_y_lo    |-> c[2] % 256,
     tile_hi      |-> ((c[1] \div 256) % 16) + 16 * ((c[2] \div 256) % 16),
     backdrop     |-> backdrop,
     object_index |-> id]

\* alpha_tile.tile_coords()
tile_coords(t) ==
    << t.tile_x_lo + 256 * (t.tile_hi % 16),
       t.tile_y_lo + 256 * (t.tile_hi \div 16) >>

\* A fill span of tile c, contributed by the object with identifier id.
FillSpan(c, span, id) == [tile |-> c, span |-> span, object_index |-> id]

Max(a, b) == IF a >= b THEN a ELSE b

\* z_buffer.update(coords, object_index): records solid coverage, the
\* greatest object index winning (depth is index + 1).
ZUpdate(z, c, id) == [z EXCEPT ![c] = Max(@, id + 1)]

\* z_buffer.test(coords, object_index): no solid tile of a later or equal
\* depth covers the coordinate.  A coordinate outside the view box has no
\* slot.
ZTest(z, c, index) == IF c \in DOMAIN z THEN z[c] < index + 1 ELSE FALSE

\* z_buffer.build_solid_tiles(range): one descriptor per covered tile, in
\* tile-index order.
RECURSIVE SolidFrom(_, _, _, _)
SolidFrom(z, k, lo, hi) ==
    IF k > Len(TileSeq) THEN << >>
    ELSE LET c == TileSeq[k]
             d == z[c]
             rest == SolidFrom(z, k + 1, lo, hi)
         IN  IF d # 0 /\ d - 1 >= lo /\ d - 1 < hi
             THEN << [tile_x |-> c[1], tile_y |-> c[2], object_index |-> d - 1] >>
                  \o rest
             ELSE rest

BuildSolidTiles(z, lo, hi) == SolidFrom(z, 1, lo, hi)

\* The render commands.
ClearMaskFramebuffer == [type |-> "ClearMaskFramebuffer", payload |-> << >>]
Fill(batch) == [type |-> "Fill", payload |-> batch]
SolidTile(tiles) == [type |-> "SolidTile", payload |-> tiles]
AlphaTileCmd(tiles) == [type |-> "AlphaTile", payload |-> tiles]

\* The shared buffers and the listener's stream as one value.
Bufs(f, a, z, s) == [fills |-> f, alpha_tiles |-> a, z_buffer |-> z, stream |-> s]

\* The Tiler appends a fill span; when the buffer reaches a whole batch it
\* sends that batch to the listener.
PushFill(b, fill) ==
    LET f == Append(b.fills, fill)
        n == Len(f)
    IN  [b EXCEPT !.fills = f,
                  !.stream = IF n % MAX_FILLS_PER_BATCH = 0
                             THEN Append(@, Fill(SubSeq(f, n - MAX_FILLS_PER_BATCH + 1, n)))
                             ELSE @]

\* One operation of generate_tiles for the object with identifier id.
ApplyOp(b, id, op) ==
    CASE op.kind = "solid" -> [b EXCEPT !.z_buffer = ZUpdate(@, op.tile, id)]
      [] op.kind = "alpha" ->
            [b EXCEPT !.alpha_tiles = Append(@, AlphaTile(op.tile, op.arg, id))]
      [] OTHER -> PushFill(b, FillSpan(op.tile, op.arg, id))

-----------------------------------------------------------------------------
(* Collaborators: the geometry library.  A coordinate is an exact rational *)
(* <<numerator, denominator>> in lowest terms with a positive denominator; *)
(* the rounding of f32 is not modelled.                                    *)

Abs(n) == IF n < 0 THEN 0 - n ELSE n

RECURSIVE GCD(_, _)
GCD(a, b) == IF b = 0 THEN a ELSE GCD(b, a % b)

RatNorm(n, d) ==
    LET g == GCD(Abs(n), Abs(d))
    IN  IF d < 0 THEN << (0 - n) \div g, (0 - d) \div g >> ELSE << n \div g, d \div g >>

Rat(n) == << n, 1 >>

RatAdd(a, b) == RatNorm(a[1] * b[2] + b[1] * a[2], a[2] * b[2])

RatNeg(a) == << 0 - a[1], a[2] >>

RatMul(a, b) == RatNorm(a[1] * b[1], a[2] * b[2])

\* a / b for b # 0.
RatDiv(a, b) == RatNorm(a[1] * b[2], a[2] * b[1])

RatLeq(a, b) == a[1] * b[2] <= b[1] * a[2]

\* RectF32, from its corners' coordinates.
RectF32(min_x, min_y, max_x, max_y) ==
    [min_x |-> Rat(min_x), min_y |-> Rat(min_y), max_x |-> Rat(max_x), max_y |-> Rat(max_y)]

\* rect.origin(), upper_right(), lower_right(), lower_left()
origin(rect) == << rect.min_x, rect.min_y >>
upper_right(rect) == << rect.max_x, rect.min_y >>
lower_right(rect) == << rect.max_x, rect.max_y >>
lower_left(rect) == << rect.min_x, rect.max_y >>

\* point.to_3d(): the homogeneous point <<x, y, 0, 1>>.
to_3d(p) == << p[1], p[2], Rat(0), Rat(1) >>

\* point.to_2d()
to_2d(p) == << p[1], p[2] >>

\* point.perspective_divide(): every coordinate divided by w.
perspective_divide(p) ==
    << RatDiv(p[1], p[4]), RatDiv(p[2], p[4]), RatDiv(p[3], p[4]), RatDiv(p[4], p[4]) >>

\* A 4x4 matrix of integers as a matrix of rationals.
RatRow(row) == << Rat(row[1]), Rat(row[2]), Rat(row[3]), Rat(row[4]) >>

RatMatrix(rows) == << RatRow(rows[1]), RatRow(rows[2]), RatRow(rows[3]), RatRow(rows[4]) >>

Dot4(row, p) ==
    RatAdd(RatAdd(RatMul(row[1], p[1]), RatMul(row[2], p[2])),
           RatAdd(RatMul(row[3], p[3]), RatMul(row[4], p[4])))

\* transform.transform_point(p): the matrix applied to the column p.
transform_point(matrix, p) ==
    << Dot4(matrix[1], p), Dot4(matrix[2], p), Dot4(matrix[3], p), Dot4(matrix[4], p) >>

RatSub(a, b) == RatAdd(a, RatNeg(b))

\* The determinant of the rows r and the columns c of a matrix, two and
\* three of each.
Det2(matrix, r, c) ==
    RatSub(RatMul(matrix[r[1]][c[1]], matrix[r[2]][c[2]]),
           RatMul(matrix[r[1]][c[2]], matrix[r[2]][c[1]]))

Det3(matrix, r, c) ==
    RatAdd(RatSub(RatMul(matrix[r[1]][c[1]], Det2(matrix, << r[2], r[3] >>, << c[2], c[3] >>)),
                  RatMul(matrix[r[1]][c[2]], Det2(matrix, << r[2], r[3] >>, << c[1], c[3] >>))),
           RatMul(matrix[r[1]][c[3]], Det2(matrix, << r[2], r[3] >>, << c[1], c[2] >>)))

\* 1..4 without k, in order.
Without(k) == SelectSeq(<< 1, 2, 3, 4 >>, LAMBDA n : n # k)

\* The cofactor of row i and column j of a 4x4 matrix.
Cofactor(matrix, i, j) ==
    LET minor == Det3(matrix, Without(i), Without(j))
    IN  IF (i + j) % 2 = 0 THEN minor ELSE RatNeg(minor)

Det(matrix) ==
    RatAdd(RatAdd(RatMul(matrix[1][1], Cofactor(matrix, 1, 1)),
                  RatMul(matrix[1][2], Cofactor(matrix, 1, 2))),
           RatAdd(RatMul(matrix[1][3], Cofactor(matrix, 1, 3)),
                  RatMul(matrix[1][4], Cofactor(matrix, 1, 4))))

\* Row r of the inverse, given the determinant.
InverseRow(matrix, det, r) ==
    << RatDiv(Cofactor(matrix, 1, r), det), RatDiv(Cofactor(matrix, 2, r), det),
       RatDiv(Cofactor(matrix, 3, r), det), RatDiv(Cofactor(matrix, 4, r), det) >>

\* transform.inverse(), for a matrix of determinant # 0: the transposed
\* cofactors over the determinant.
inverse(matrix) ==
    LET det == Det(matrix)
    IN  << InverseRow(matrix, det, 1), InverseRow(matrix, det, 2),
           InverseRow(matrix, det, 3), InverseRow(matrix, det, 4) >>

\* Transform2DF32 as <<m11, m12, m21, m22, tx, ty>>; Transform2DF32::default()
\* is the identity.
Transform2DF32Default == << 1, 0, 0, 1, 0, 0 >>

\* transform.is_identity()
is_identity(transform) == transform = Transform2DF32Default

\* The canonical view volume: -w <= x, y, z <= w.
InsideViewVolume(p) ==
    \A k \in 1..3 : RatLeq(RatNeg(p[4]), p[k]) /\ RatLeq(p[k], p[4])

\* Every vertex lies beyond one and the same face of the view volume.
OutsideViewVolume(points) ==
    \E k \in 1..3 :
        \/ \A n \in 1..Len(points) : ~RatLeq(points[n][k], points[n][4])
        \/ \A n \in 1..Len(points) : ~RatLeq(RatNeg(points[n][4]), points[n][k])

\* All the sequences of at most n elements of the set s.
RECURSIVE SeqsUpTo(_, _)
SeqsUpTo(s, n) ==
    IF n = 0 THEN {<< >>}
    ELSE LET shorter == SeqsUpTo(s, n - 1)
         IN  shorter \cup {Append(q, x) : q \in shorter, x \in s}

\* PolygonClipper3D::new(points).clip(): the ordered vertex lists the
\* clipper may return.  A polygon inside the view volume comes back as it
\* is and one beyond a face of the volume comes back empty; of a polygon
\* that crosses the volume only the length of the result is bounded.
Clip(points) ==
    IF \A k \in 1..Len(points) : InsideViewVolume(points[k]) THEN {points}
    ELSE IF OutsideViewVolume(points) THEN {<< >>}
    ELSE SeqsUpTo(Range(points), MaxClipVertices)

-----------------------------------------------------------------------------
(* builder.rs *)

\* Mutant of ObjectId: the index is narrowed to u8.
ObjectIdByte(index) == index % 256

\* build_object, line 150: the object index is narrowed to u16.
ObjectId(index) == index % U16

\* SharedBuffers::new(effective_view_box), lines 56 and 76.
NewBuffers == Bufs(<< >>, << >>, [c \in Tiles |-> 0], << >>)

\* Mutant of FirstCommands: nothing is sent before the objects are built.
FirstCommandsNone == << >>

\* Lines 58 and 78: what build_* sends before any object is built.
FirstCommands == << ClearMaskFramebuffer >>

\* Mutant of AllObjectsDone: the join waits for one closure only.
AnyObjectDone(w) == \E i \in DOMAIN w : w[i] = "done"

\* Mutant of AllObjectsDone: the join does not wait for the closures.
NoObjectDone(w) == \A i \in DOMAIN w : w[i] = "todo"

\* Lines 81-88: for_each returns once every closure has returned.
AllObjectsDone(w) == \A i \in DOMAIN w : w[i] = "done"

\* a & !m on w-bit unsigned values, bit by bit.
RECURSIVE AndNot(_, _, _)
AndNot(a, m, w) ==
    IF w = 0 THEN 0
    ELSE (a % 2) * (1 - (m % 2)) + 2 * AndNot(a \div 2, m \div 2, w - 1)

\* Mutant of HasFillRemainder: the remainder is sent whatever its size.
HasFillRemainderAlways(fill_count) == TRUE

\* Line 104: fill_count % MAX_FILLS_PER_BATCH != 0
HasFillRemainder(fill_count) == fill_count % MAX_FILLS_PER_BATCH # 0

\* Mutant of FillStart: the mask is !MAX_FILLS_PER_BATCH.
FillStartWrongMask(fill_count) == AndNot(fill_count, MAX_FILLS_PER_BATCH, U32Bits)

\* Line 105: fill_count & !(MAX_FILLS_PER_BATCH - 1), in u32.
FillStart(fill_count) == AndNot(fill_count, MAX_FILLS_PER_BATCH - 1, U32Bits)

\* fills.range_to_vec(start..end): the elements at the 0-based offsets
\* start .. end-1.
RangeToVec(f, start, end) == SubSeq(f, start + 1, end)

\* Mutant of CullRecord: tile_hi is left as it was.
CullRecordKeepsHi(alpha_tile, z) ==
    IF ZTest(z, tile_coords(alpha_tile), alpha_tile.object_index)
    THEN alpha_tile
    ELSE [alpha_tile EXCEPT !.tile_x_lo = SENTINEL, !.tile_y_lo = SENTINEL]

\* Mutant of CullRecord: the test is inverted.
CullRecordInverted(alpha_tile, z) ==
    IF ~ZTest(z, tile_coords(alpha_tile), alpha_tile.object_index)
    THEN alpha_tile
    ELSE [alpha_tile EXCEPT !.tile_x_lo = SENTINEL,
                            !.tile_y_lo = SENTINEL,
                            !.tile_hi = SENTINEL]

\* Mutant of CullRecord: the object index is overwritten as well.
CullRecordClobbersIndex(alpha_tile, z) ==
    IF ZTest(z, tile_coords(alpha_tile), alpha_tile.object_index)
    THEN alpha_tile
    ELSE [alpha_tile EXCEPT !.tile_x_lo = SENTINEL,
                            !.tile_y_lo = SENTINEL,
                            !.tile_hi = SENTINEL,
                            !.object_index = SENTINEL]

\* Lines 125-135: one iteration of the loop of cull_alpha_tiles, as the
\* record written back (the record itself when the test passes).
CullRecord(alpha_tile, z) ==
    IF ZTest(z, tile_coords(alpha_tile), alpha_tile.object_index)
    THEN alpha_tile
    ELSE [alpha_tile EXCEPT !.tile_x_lo = SENTINEL,
                            !.tile_y_lo = SENTINEL,
                            !.tile_hi = SENTINEL]

\* insertion_sort_shift_left: where the element at offset k of tiles ends.
\* An element is moved to the left past the elements greater than it and
\* past no other, so it ends behind the elements of a smaller object_index
\* and behind the elements of the same object_index that stood before it.
SortedOffset(tiles, k) ==
    Cardinality({j \in 1..Len(tiles) :
                    \/ tiles[j].object_index < tiles[k].object_index
                    \/ tiles[j].object_index = tiles[k].object_index /\ j <= k})

\* insertion_sort_shift_left on tiles: the slice it leaves.
InsertionSort(tiles) ==
    [p \in 1..Len(tiles) |->
        tiles[CHOOSE k \in 1..Len(tiles) : SortedOffset(tiles, k) = p]]

\* The orderings of the elements of tiles at the offsets in idx that are
\* ascending in object_index: any element of the least index comes first.
RECURSIVE AscendingOrders(_, _)
AscendingOrders(tiles, idx) ==
    IF idx = {} THEN {<< >>}
    ELSE LET least == {k \in idx : \A j \in idx :
                           tiles[k].object_index <= tiles[j].object_index}
         IN  UNION {{<< tiles[k] >> \o rest : rest \in AscendingOrders(tiles, idx \ {k})} :
                      k \in least}

\* Mutant of SortUnstableBy: the copy is not sorted.
SortUnstableByNone(tiles) == {tiles}

\* Mutant of SortUnstableBy: the comparison is the other way round.
RECURSIVE DescendingOrders(_, _)
DescendingOrders(tiles, idx) ==
    IF idx = {} THEN {<< >>}
    ELSE LET most == {k \in idx : \A j \in idx :
                          tiles[k].object_index >= tiles[j].object_index}
         IN  UNION {{<< tiles[k] >> \o rest : rest \in DescendingOrders(tiles, idx \ {k})} :
                      k \in most}

SortUnstableByDescending(tiles) == DescendingOrders(tiles, 1..Len(tiles))

\* Line 116: tiles.sort_unstable_by(..).  A slice of at most 20 elements
\* is sorted by insertion (in every release of the standard library that
\* has the method), which leaves elements that compare equal in their
\* order.  A longer slice is partitioned around pivots, by pdqsort or by
\* ipnsort depending on the release; the model takes for it every outcome
\* the method's contract allows, that is every reordering of the copy that
\* is ascending in object_index.
SortUnstableBy(tiles) ==
    IF Len(tiles) <= 20 THEN {InsertionSort(tiles)}
    ELSE AscendingOrders(tiles, 1..Len(tiles))

\* Mutant of PackCommands: the solid tiles are sent before the fills.
PackCommandsSolidFirst(f, solid_tiles, a, sorted) ==
    (IF solid_tiles # << >> THEN << SolidTile(solid_tiles) >> ELSE << >>)
    \o (IF HasFillRemainder(Len(f))
        THEN << Fill(RangeToVec(f, FillStart(Len(f)), Len(f))) >> ELSE << >>)
    \o (IF a # << >> THEN << AlphaTileCmd(sorted) >> ELSE << >>)

\* Mutant of SolidRangeEnd: the range stops one object early.
SolidRangeEndShort(n) == IF n > 0 THEN n - 1 ELSE 0

\* Lines 100-101: the end of the object range 0..object_count.
SolidRangeEnd(n) == n

\* Lines 103-120: the commands pack_alpha_tiles sends, given the solid
\* tiles it built and the sorted copy of the alpha tiles.
PackCommands(f, solid_tiles, a, sorted) ==
    (IF HasFillRemainder(Len(f))
     THEN << Fill(RangeToVec(f, FillStart(Len(f)), Len(f))) >> ELSE << >>)
    \o (IF solid_tiles # << >> THEN << SolidTile(solid_tiles) >> ELSE << >>)
    \o (IF a # << >> THEN << AlphaTileCmd(sorted) >> ELSE << >>)

\* Lines 104-108: the fill buffer after packing.
FillsAfterPack(f) == IF HasFillRemainder(Len(f)) THEN << >> ELSE f

\* Mutant of AlphaAfterPack: the buffer is not cleared.
AlphaAfterPackKept(a) == a

\* Lines 199-204: the corners of bounds as homogeneous points.
Corners(rect) ==
    << to_3d(origin(rect)), to_3d(upper_right(rect)),
       to_3d(lower_right(rect)), to_3d(lower_left(rect)) >>

\* Lines 207-209: every corner transformed by the perspective.
TransformedPoints(perspective, rect) ==
    << transform_point(perspective.transform, Corners(rect)[1]),
       transform_point(perspective.transform, Corners(rect)[2]),
       transform_point(perspective.transform, Corners(rect)[3]),
       transform_point(perspective.transform, Corners(rect)[4]) >>

\* Mutant of Quad: the last two corners change places.
QuadSwapped(points) ==
    << perspective_divide(points[1]), perspective_divide(points[2]),
       perspective_divide(points[4]), perspective_divide(points[3]) >>

\* Lines 213-218: the transformed corners after the perspective divide.
Quad(points) ==
    << perspective_divide(points[1]), perspective_divide(points[2]),
       perspective_divide(points[3]), perspective_divide(points[4]) >>

\* Lines 223-230: the clipped vertices divided, mapped back by the inverse
\* transform, divided again and dropped to 2D.
ClipVertex(inverse_transform, point) ==
    to_2d(perspective_divide(transform_point(inverse_transform,
                                             perspective_divide(point))))

\* Mutant of ClipPolygon: the vertices are collected in reverse.
ClipPolygonReversed(perspective, points) ==
    LET inverse_transform == inverse(perspective.transform)
    IN  [k \in 1..Len(points) |->
            ClipVertex(inverse_transform, points[Len(points) + 1 - k])]

ClipPolygon(perspective, points) ==
    LET inverse_transform == inverse(perspective.transform)
    IN  [k \in 1..Len(points) |-> ClipVertex(inverse_transform, points[k])]

\* PreparedRenderTransform, lines 251-255.
PreparedNone == [kind |-> "None"]

PreparedTransform2D(transform) == [kind |-> "Transform2D", transform |-> transform]

PreparedPerspective(perspective, clip_polygon, quad) ==
    [kind |-> "Perspective", perspective |-> perspective,
     clip_polygon |-> clip_polygon, quad |-> quad]

\* Mutant of Prepare2D: the matrix is wrapped whatever it is.
Prepare2DAlwaysWraps(transform) == PreparedTransform2D(transform)

\* Lines 189-195: the 2D arm of RenderTransform::prepare.
Prepare2D(transform) ==
    IF is_identity(transform) THEN PreparedNone ELSE PreparedTransform2D(transform)

\* Lines 187-233: RenderTransform::prepare, given what the clipper returned.
RenderTransformPrepare(self, rect, clipped) ==
    IF self.kind = "Transform2D" THEN Prepare2D(self.transform)
    ELSE PreparedPerspective(self.perspective,
                             ClipPolygon(self.perspective, clipped),
                             Quad(TransformedPoints(self.perspective, rect)))

\* Lines 180-185: RenderTransform::default().
RenderTransformDefault == [kind |-> "Transform2D", transform |-> Transform2DF32Default]

\* Lines 155-161: #[derive(Default)] for RenderOptions.
RenderOptionsDefault ==
    [kind |-> "RenderOptions",
     transform |-> RenderTransformDefault,
     dilation |-> << 0, 0 >>,
     barrel_distortion |-> [kind |-> "None"],
     subpixel_aa_enabled |-> FALSE]

\* Mutant of RenderOptionsPrepare: the dilation is reset.
RenderOptionsPrepareNoDilation(self, rect, clipped) ==
    [kind |-> "PreparedRenderOptions",
     transform |-> RenderTransformPrepare(self.transform, rect, clipped),
     dilation |-> << 0, 0 >>,
     barrel_distortion |-> self.barrel_distortion,
     subpixel_aa_enabled |-> self.subpixel_aa_enabled]

\* Lines 164-171: RenderOptions::prepare.
RenderOptionsPrepare(self, rect, clipped) ==
    [kind |-> "PreparedRenderOptions",
     transform |-> RenderTransformPrepare(self.transform, rect, clipped),
     dilation |-> self.dilation,
     barrel_distortion |-> self.barrel_distortion,
     subpixel_aa_enabled |-> self.subpixel_aa_enabled]

\* Lines 114-120: the alpha-tile buffer after packing.
AlphaAfterPack(a) == IF a # << >> THEN << >> ELSE a

-----------------------------------------------------------------------------
(* The state machine.  Object i of the code (0-based) is scene[i + 1].     *)

object_count == Len(scene)

Objects == 0..(object_count - 1)

CurrentBufs == Bufs(fills, alpha_tiles, z_buffer, stream)

\* No index narrowed and no call of prepare.
AuxIdle ==
    /\ narrowed = {}
    /\ render_options = [kind |-> "none"]
    /\ bounds = [kind |-> "none"]
    /\ clipper = [called |-> FALSE, points |-> << >>]
    /\ prepared = [kind |-> "none"]

Init ==
    /\ AuxIdle
    /\ scene \in Scenes
    /\ mode \in {"sequential", "parallel"}
    /\ phase = "init"
    /\ object_index = 0
    /\ worker = [i \in 0..(Len(scene) - 1) |-> "todo"]
    /\ pc = [i \in 0..(Len(scene) - 1) |-> 0]
    /\ fills = << >>
    /\ alpha_tiles = << >>
    /\ z_buffer = [c \in Tiles |-> 0]
    /\ alpha_tile_index = 0
    /\ stream = << >>

\* build_sequentially, lines 55-60.
BuildSequentiallyBegin ==
    /\ phase = "init"
    /\ mode = "sequential"
    /\ phase' = "build"
    /\ fills' = NewBuffers.fills
    /\ alpha_tiles' = NewBuffers.alpha_tiles
    /\ z_buffer' = NewBuffers.z_buffer
    /\ stream' = stream \o FirstCommands
    /\ object_index' = 0
    /\ UNCHANGED <<scene, mode, worker, pc, alpha_tile_index>>
    /\ UNCHANGED aux

\* build_in_parallel, lines 75-80.
BuildInParallelBegin ==
    /\ phase = "init"
    /\ mode = "parallel"
    /\ phase' = "build"
    /\ fills' = NewBuffers.fills
    /\ alpha_tiles' = NewBuffers.alpha_tiles
    /\ z_buffer' = NewBuffers.z_buffer
    /\ stream' = stream \o FirstCommands
    /\ UNCHANGED <<scene, mode, object_index, worker, pc, alpha_tile_index>>
    /\ UNCHANGED aux

\* Lines 62 and 82: build_object(object_index, ..) is called, by the loop
\* for its current index or by a pool worker for any index not yet taken.
BuildObjectCall(i) ==
    /\ phase = "build"
    /\ worker[i] = "todo"
    /\ mode = "sequential" => i = object_index
    /\ worker' = [worker EXCEPT ![i] = "running"]
    /\ UNCHANGED <<scene, mode, phase, object_index, pc, fills, alpha_tiles,
                   z_buffer, alpha_tile_index, stream>>
    /\ UNCHANGED aux

\* Line 151: one operation of tiler.generate_tiles() for object i.
TilerOp(i) ==
    /\ worker[i] = "running"
    /\ pc[i] < ScriptLen(scene[i + 1])
    /\ LET b == ApplyOp(CurrentBufs, ObjectId(i), Script(scene[i + 1])[pc[i] + 1])
       IN  /\ fills' = b.fills
           /\ alpha_tiles' = b.alpha_tiles
           /\ z_buffer' = b.z_buffer
           /\ stream' = b.stream
    /\ pc' = [pc EXCEPT ![i] = @ + 1]
    /\ UNCHANGED <<scene, mode, phase, object_index, worker, alpha_tile_index>>
    /\ UNCHANGED aux

\* Lines 152-153: build_object returns; the sequential loop moves on.
BuildObjectReturn(i) ==
    /\ worker[i] = "running"
    /\ pc[i] = ScriptLen(scene[i + 1])
    /\ worker' = [worker EXCEPT ![i] = "done"]
    /\ object_index' = IF mode = "sequential" THEN object_index + 1 ELSE object_index
    /\ UNCHANGED <<scene, mode, phase, pc, fills, alpha_tiles, z_buffer,
                   alpha_tile_index, stream>>
    /\ UNCHANGED aux

\* Lines 61 and 70: the loop of build_sequentially ends; cull_alpha_tiles
\* is called.
SequentialLoopExit ==
    /\ phase = "build"
    /\ mode = "sequential"
    /\ object_index = object_count
    /\ phase' = "cull"
    /\ alpha_tile_index' = 0
    /\ UNCHANGED <<scene, mode, object_index, worker, pc, fills, alpha_tiles,
                   z_buffer, stream>>
    /\ UNCHANGED aux

\* Lines 81-90: for_each returns; cull_alpha_tiles is called.
ParallelJoin ==
    /\ phase = "build"
    /\ mode = "parallel"
    /\ AllObjectsDone(worker)
    /\ phase' = "cull"
    /\ alpha_tile_index' = 0
    /\ UNCHANGED <<scene, mode, object_index, worker, pc, fills, alpha_tiles,
                   z_buffer, stream>>
    /\ UNCHANGED aux

\* Lines 124-136: one iteration of the loop of cull_alpha_tiles.
CullStep ==
    /\ phase = "cull"
    /\ alpha_tile_index < Len(alpha_tiles)
    /\ alpha_tiles' = [alpha_tiles EXCEPT ![alpha_tile_index + 1] =
                          CullRecord(alpha_tiles[alpha_tile_index + 1], z_buffer)]
    /\ alpha_tile_index' = alpha_tile_index + 1
    /\ UNCHANGED <<scene, mode, phase, object_index, worker, pc, fills,
                   z_buffer, stream>>
    /\ UNCHANGED aux

\* Lines 124 and 137: the loop ends, cull_alpha_tiles returns and
\* pack_alpha_tiles is called (lines 71 and 91).
CullReturn ==
    /\ phase = "cull"
    /\ alpha_tile_index = Len(alpha_tiles)
    /\ phase' = "pack"
    /\ UNCHANGED <<scene, mode, object_index, worker, pc, fills, alpha_tiles,
                   z_buffer, alpha_tile_index, stream>>
    /\ UNCHANGED aux

\* Lines 94-121: pack_alpha_tiles.
PackAlphaTiles ==
    /\ phase = "pack"
    /\ \E sorted \in SortUnstableBy(alpha_tiles) :
          stream' = stream \o PackCommands(fills,
                                           BuildSolidTiles(z_buffer, 0, SolidRangeEnd(object_count)),
                                           alpha_tiles, sorted)
    /\ fills' = FillsAfterPack(fills)
    /\ alpha_tiles' = AlphaAfterPack(alpha_tiles)
    /\ phase' = "done"
    /\ UNCHANGED <<scene, mode, object_index, worker, pc, z_buffer, alpha_tile_index>>
    /\ UNCHANGED aux

Next ==
    \/ BuildSequentiallyBegin
    \/ BuildInParallelBegin
    \/ \E i \in Objects : BuildObjectCall(i)
    \/ \E i \in Objects : TilerOp(i)
    \/ \E i \in Objects : BuildObjectReturn(i)
    \/ SequentialLoopExit
    \/ ParallelJoin
    \/ CullStep
    \/ CullReturn
    \/ PackAlphaTiles

Spec == Init /\ [][Next]_vars

\* The shapes of the scenes of FairSpec: an object covers the tiles of the
\* view box alike.
FairShapes == {shape \in Shapes : \A c, d \in Tiles : shape[c] = shape[d]}

FairInit ==
    /\ Init
    /\ \A i \in 1..Len(scene) : scene[i] \in FairShapes

\* The build under fair scheduling: a step that can be taken (a worker's
\* next tiling operation, the next loop iteration, the join) is taken.
FairSpec == FairInit /\ [][Next]_vars /\ WF_vars(Next)

-----------------------------------------------------------------------------
(* PackSpec: culling and packing from the states in which the objects of a *)
(* one-object scene have been built, the object having one alpha tile with *)
(* N fill spans (or no tile at all for N = 0).  N is drawn from around the *)
(* batch boundaries.                                                       *)

FillCounts ==
    (0..Slack) \cup
    {k * MAX_FILLS_PER_BATCH + d : k \in 1..MaxBatches, d \in (0 - Slack)..Slack}

OneTileShape(n) ==
    [c \in Tiles |-> IF c = TileSeq[1] /\ n > 0 THEN AlphaShape(n) ELSE NoTile]

\* The fill buffer after the object's n fill spans were appended.
BuiltFills(n) == [j \in 1..n |-> FillSpan(TileSeq[1], j, ObjectId(0))]

\* The stream after the object was built: the whole batches were sent as
\* the buffer reached them.
BuiltStream(n) ==
    FirstCommands \o
    [k \in 1..(n \div MAX_FILLS_PER_BATCH) |->
        Fill(SubSeq(BuiltFills(n), (k - 1) * MAX_FILLS_PER_BATCH + 1,
                    k * MAX_FILLS_PER_BATCH))]

PackInit ==
    \E n \in FillCounts :
        /\ AuxIdle
        /\ scene = << OneTileShape(n) >>
        /\ mode \in {"sequential", "parallel"}
        /\ phase = "build"
        /\ object_index = IF mode = "sequential" THEN 1 ELSE 0
        /\ worker = [i \in {0} |-> "done"]
        /\ pc = [i \in {0} |-> IF n > 0 THEN n + 1 ELSE 0]
        /\ fills = BuiltFills(n)
        /\ alpha_tiles = IF n > 0 THEN << AlphaTile(TileSeq[1], 1, ObjectId(0)) >>
                         ELSE << >>
        /\ z_buffer = [c \in Tiles |-> 0]
        /\ alpha_tile_index = 0
        /\ stream = BuiltStream(n)

PackNext ==
    \/ SequentialLoopExit
    \/ ParallelJoin
    \/ CullStep
    \/ CullReturn
    \/ PackAlphaTiles

PackSpec == PackInit /\ [][PackNext]_vars

-----------------------------------------------------------------------------
(* FlushSpec: a build of two objects from the state in which object 0,   *)
(* one alpha tile with N fill spans, has appended all but the last few   *)
(* spans before the first batch boundary and object 1 has not started.   *)
(* The buffer reaches the boundary while the objects are being built.    *)

\* The fill spans object 0 has appended when FlushSpec starts.
FlushStart == MAX_FILLS_PER_BATCH - Slack - 1

FlushCounts == {MAX_FILLS_PER_BATCH + d : d \in (0 - Slack)..Slack}

FlushInit ==
    \E n \in FlushCounts, shape \in FairShapes :
        /\ AuxIdle
        /\ scene = << OneTileShape(n), shape >>
        /\ mode \in {"sequential", "parallel"}
        /\ phase = "build"
        /\ object_index = 0
        /\ worker = [i \in {0, 1} |-> IF i = 0 THEN "running" ELSE "todo"]
        /\ pc = [i \in {0, 1} |-> IF i = 0 THEN FlushStart + 1 ELSE 0]
        /\ fills = BuiltFills(FlushStart)
        /\ alpha_tiles = << AlphaTile(TileSeq[1], 1, ObjectId(0)) >>
        /\ z_buffer = [c \in Tiles |-> 0]
        /\ alpha_tile_index = 0
        /\ stream = BuiltStream(FlushStart)

FlushNext ==
    \/ \E i \in Objects : BuildObjectCall(i)
    \/ \E i \in Objects : TilerOp(i)
    \/ \E i \in Objects : BuildObjectReturn(i)
    \/ SequentialLoopExit
    \/ ParallelJoin
    \/ CullStep
    \/ CullReturn
    \/ PackAlphaTiles

FlushSpec == FlushInit /\ [][FlushNext]_vars

-----------------------------------------------------------------------------
(* IdSpec: the end of a build of a scene of a few objects.  The last two *)
(* objects have one alpha tile each, on different tiles; the objects     *)
(* before them have no tile and have been built.  Beside the build, the  *)
(* cast of line 150 is applied as a function to indices around 0 and     *)
(* around the multiples of 65536: a scene of that many objects is        *)
(* beyond enumeration, the cast of its indices is not.                   *)

\* The build variables outside a build.
BuildIdle ==
    /\ scene = << >>
    /\ object_index = 0
    /\ worker = << >>
    /\ pc = << >>
    /\ fills = << >>
    /\ alpha_tiles = << >>
    /\ z_buffer = [c \in Tiles |-> 0]
    /\ alpha_tile_index = 0
    /\ stream = << >>

\* The numbers of objects of the scenes of IdSpec.
IdCounts == 2..(2 + Slack)

\* The indices the cast is applied to.
IdSamples ==
    (0..Slack) \cup {k * U16 + d : k \in {1, 2}, d \in (0 - Slack)..Slack}

\* An object whose only tile is an alpha tile at the k-th tile.
AlphaAt(k) == [c \in Tiles |-> IF c = TileSeq[k] THEN AlphaShape(1) ELSE NoTile]

IdScene(n) ==
    [i \in 1..n |-> IF i = n - 1 THEN AlphaAt(1)
                    ELSE IF i = n THEN AlphaAt(2)
                    ELSE [c \in Tiles |-> NoTile]]

\* Lines 58-62 and 78-82: ClearMaskFramebuffer has been sent, the objects
\* before the last two have been built and the last two have not been
\* taken.
IdInit ==
    \E n \in IdCounts :
        /\ AuxIdle
        /\ scene = IdScene(n)
        /\ mode \in {"sequential", "parallel"}
        /\ phase = "build"
        /\ object_index = IF mode = "sequential" THEN n - 2 ELSE 0
        /\ worker = [i \in 0..(n - 1) |-> IF i < n - 2 THEN "done" ELSE "todo"]
        /\ pc = [i \in 0..(n - 1) |-> 0]
        /\ fills = NewBuffers.fills
        /\ alpha_tiles = NewBuffers.alpha_tiles
        /\ z_buffer = NewBuffers.z_buffer
        /\ alpha_tile_index = 0
        /\ stream = FirstCommands

\* Line 150, the expression "object_index as u16" alone, as a function of
\* the index: applied to a sampled index, twice at most.
NarrowIndex(index) ==
    /\ phase = "build"
    /\ Cardinality(narrowed) < 2
    /\ narrowed' = narrowed \cup {[index |-> index, id |-> ObjectId(index)]}
    /\ narrowed' # narrowed
    /\ UNCHANGED <<scene, mode, phase, object_index, worker, pc, fills, alpha_tiles,
                   z_buffer, alpha_tile_index, stream>>
    /\ UNCHANGED <<render_options, bounds, clipper, prepared>>

IdNext ==
    \/ \E i \in Objects : BuildObjectCall(i)
    \/ \E i \in Objects : TilerOp(i)
    \/ \E i \in Objects : BuildObjectReturn(i)
    \/ SequentialLoopExit
    \/ ParallelJoin
    \/ CullStep
    \/ CullReturn
    \/ PackAlphaTiles
    \/ \E index \in IdSamples : NarrowIndex(index)

IdSpec == IdInit /\ [][IdNext]_vars

-----------------------------------------------------------------------------
(* PrepareSpec: RenderOptions::prepare called once on options and bounds *)
(* drawn from samples: 2D matrices around the identity, and perspective  *)
(* transforms that leave the bounds inside the view volume, throw them   *)
(* out of it, or cut them.                                               *)

Transforms2D ==
    {<< a, b, c, d, tx, 0 >> : a \in {1, 2}, b \in {0, 1}, c \in {0, 0 - 1},
                               d \in {1, 2}, tx \in {0, 3}}

\* Perspective transforms: a uniform shrink, a shift beyond the right face
\* of the view volume, and a projection with w = x + 2.
Perspectives ==
    {[transform |-> RatMatrix(rows), window_size |-> << 4, 3 >>] :
        rows \in {<< <<1, 0, 0, 0>>, <<0, 1, 0, 0>>, <<0, 0, 1, 0>>, <<0, 0, 0, 4>> >>,
                  << <<1, 0, 0, 9>>, <<0, 1, 0, 0>>, <<0, 0, 1, 0>>, <<0, 0, 0, 1>> >>,
                  << <<2, 0, 0, 0>>, <<0, 2, 0, 0>>, <<0, 0, 1, 0>>, <<1, 0, 0, 2>> >>}}

RenderTransforms ==
    {[kind |-> "Transform2D", transform |-> t] : t \in Transforms2D}
    \cup {[kind |-> "Perspective", perspective |-> p] : p \in Perspectives}

\* The other fields of RenderOptions: the defaults, and values that differ
\* from the defaults in every field.
OtherFields ==
    {[dilation |-> << 0, 0 >>, barrel_distortion |-> [kind |-> "None"],
      subpixel_aa_enabled |-> FALSE],
     [dilation |-> << 1, 2 >>, barrel_distortion |-> [kind |-> "Some", k0 |-> 1, k1 |-> 2],
      subpixel_aa_enabled |-> TRUE]}

BoundsSamples == {RectF32(0, 0, 1, 1), RectF32(0 - 1, 0 - 1, 2, 1)}

PrepareInit ==
    /\ BuildIdle
    /\ mode = "sequential"
    /\ phase = "prepare"
    /\ narrowed = {}
    /\ \E t \in RenderTransforms, o \in OtherFields :
          render_options = [kind |-> "RenderOptions",
                            transform |-> t,
                            dilation |-> o.dilation,
                            barrel_distortion |-> o.barrel_distortion,
                            subpixel_aa_enabled |-> o.subpixel_aa_enabled]
    /\ bounds \in BoundsSamples
    /\ clipper = [called |-> FALSE, points |-> << >>]
    /\ prepared = [kind |-> "none"]

\* Lines 163-172 and 187-233: render_options.prepare(bounds).  The clipper
\* runs for a perspective transform only (line 221).
Prepare ==
    /\ phase = "prepare"
    /\ phase' = "prepared"
    /\ IF render_options.transform.kind = "Transform2D"
       THEN /\ prepared' = RenderOptionsPrepare(render_options, bounds, << >>)
            /\ clipper' = clipper
       ELSE \E clipped \in Clip(TransformedPoints(render_options.transform.perspective,
                                                  bounds)) :
                /\ clipper' = [called |-> TRUE, points |-> clipped]
                /\ prepared' = RenderOptionsPrepare(render_options, bounds, clipped)
    /\ UNCHANGED <<scene, mode, object_index, worker, pc, fills, alpha_tiles,
                   z_buffer, alpha_tile_index, stream>>
    /\ UNCHANGED <<narrowed, render_options, bounds>>

PrepareNext == Prepare

PrepareSpec == PrepareInit /\ [][PrepareNext]_vars

-----------------------------------------------------------------------------
(* The sequential build as a function of the scene: what                   *)
(* build_sequentially sends for a scene, computed object by object in      *)
(* index order.                                                            *)

RECURSIVE RunScript(_, _, _, _)
RunScript(b, id, script, k) ==
    IF k > Len(script) THEN b
    ELSE RunScript(ApplyOp(b, id, script[k]), id, script, k + 1)

RECURSIVE BuildObjectsFrom(_, _, _)
BuildObjectsFrom(b, sc, i) ==
    IF i >= Len(sc) THEN b
    ELSE BuildObjectsFrom(RunScript(b, ObjectId(i), Script(sc[i + 1]), 1), sc, i + 1)

\* Lines 55-68: the buffers and the stream when the loop ends.
SequentialBuffers(sc) ==
    BuildObjectsFrom([NewBuffers EXCEPT !.stream = FirstCommands], sc, 0)

\* Lines 123-137: the buffer after the whole loop of cull_alpha_tiles.
CullAll(a, z) == [k \in 1..Len(a) |-> CullRecord(a[k], z)]

\* Lines 54-72: the streams build_sequentially can send for a scene (one
\* per outcome of the sort).
SequentialStreams(sc) ==
    LET b == SequentialBuffers(sc)
        a == CullAll(b.alpha_tiles, b.z_buffer)
    IN  {b.stream \o PackCommands(b.fills, BuildSolidTiles(b.z_buffer, 0, SolidRangeEnd(Len(sc))),
                                  a, sorted) : sorted \in SortUnstableBy(a)}

-----------------------------------------------------------------------------
(* SortSpec: the end of a parallel build whose alpha-tile buffer holds    *)
(* more than 20 records.  Every object has one alpha tile, except object  *)
(* 19, which has two; the workers ran one after the other in index order, *)
(* except that one pair of neighbouring objects ran in the other order,   *)
(* so that the buffer is not sorted.                                      *)

\* The numbers of objects of the scenes of SortSpec.
SortCounts == 39..(39 + Slack)

SortScene(n) ==
    [i \in 1..n |-> IF i = 20 THEN [c \in Tiles |-> AlphaShape(1)] ELSE AlphaAt(1)]

\* The objects j of which j and j + 1 may have run in the other order:
\* both before or both after object 19.
SortExchanges(n) == {j \in 1..(n - 2) : j + 1 < 19 \/ j > 19}

\* The order in which the workers ran.
SortOrder(n, j) ==
    [k \in 1..n |-> IF k - 1 = j THEN j + 1 ELSE IF k - 1 = j + 1 THEN j ELSE k - 1]

\* Lines 81-88: the buffers after the closures ran in the given order, one
\* at a time, from the k-th on.  (The buffers a closure leaves are compared
\* with themselves, which is always true, to have them computed before the
\* next closure runs and not all at the end.)
RECURSIVE BuildInOrder(_, _, _, _)
BuildInOrder(b, sc, order, k) ==
    IF k > Len(order) THEN b
    ELSE LET built == RunScript(b, ObjectId(order[k]), Script(sc[order[k] + 1]), 1)
         IN  CASE built = built -> BuildInOrder(built, sc, order, k + 1)

\* Lines 74-88: build_in_parallel when the last closure has returned.
SortInit ==
    \E n \in SortCounts :
        \E j \in SortExchanges(n) :
            LET b == BuildInOrder([NewBuffers EXCEPT !.stream = FirstCommands],
                                  SortScene(n), SortOrder(n, j), 1)
            IN  /\ AuxIdle
                /\ scene = SortScene(n)
                /\ mode = "parallel"
                /\ phase = "build"
                /\ object_index = 0
                /\ worker = [i \in 0..(n - 1) |-> "done"]
                /\ pc = [i \in 0..(n - 1) |-> ScriptLen(SortScene(n)[i + 1])]
                /\ fills = b.fills
                /\ alpha_tiles = b.alpha_tiles
                /\ z_buffer = b.z_buffer
                /\ alpha_tile_index = 0
                /\ stream = b.stream

SortNext ==
    \/ ParallelJoin
    \/ CullStep
    \/ CullReturn
    \/ PackAlphaTiles

SortSpec == SortInit /\ [][SortNext]_vars

-----------------------------------------------------------------------------
(* Properties. *)

\* The commands sent by the step being taken.
Emitted == SubSeq(stream', Len(stream) + 1, Len(stream'))

Positions(s, type) == {k \in 1..Len(s) : s[k].type = type}

IsSentinel(t) ==
    t.tile_x_lo = SENTINEL /\ t.tile_y_lo = SENTINEL /\ t.tile_hi = SENTINEL

SortedByObjectIndex(s) ==
    \A k \in 1..(Len(s) - 1) : s[k].object_index <= s[k + 1].object_index

LastCommand(s) == s[Len(s)]

\* C1: in both modes and for every scene, the first command the listener
\* receives is ClearMaskFramebuffer, nothing is received before the build
\* starts, and ClearMaskFramebuffer occurs exactly once in the stream.
C1_ClearMaskFirstOnce ==
    IF phase = "init" THEN stream = << >>
    ELSE /\ stream # << >>
         /\ stream[1] = ClearMaskFramebuffer
         /\ Positions(stream, "ClearMaskFramebuffer") = {1}

C1_Witness ==
    /\ phase = "done"
    /\ mode = "parallel"
    /\ Len(stream) = 4

PackRank(type) ==
    CASE type = "Fill" -> 1
      [] type = "SolidTile" -> 2
      [] type = "AlphaTile" -> 3
      [] OTHER -> 0

\* C2: among the commands one run of pack_alpha_tiles sends, a Fill comes
\* before the SolidTile and the SolidTile before the AlphaTile; the step
\* sends nothing else and no command type twice.
C2_PackOrder ==
    [][phase = "pack" =>
          \A a, b \in 1..Len(Emitted) :
              /\ PackRank(Emitted[a].type) >= 1
              /\ a < b => PackRank(Emitted[a].type) < PackRank(Emitted[b].type)]_vars

C2_Witness ==
    /\ phase = "done"
    /\ \E a, b, c \in 1..Len(stream) :
          /\ a < b /\ b < c
          /\ stream[a].type = "Fill"
          /\ stream[b].type = "SolidTile"
          /\ stream[c].type = "AlphaTile"

\* The fill spans of all the Fill commands of a stream, in stream order.
AllFills(st) ==
    Flatten([k \in 1..Len(st) |-> IF st[k].type = "Fill" THEN st[k].payload ELSE << >>])

\* A command with a Fill batch reduced to its size.
FillNormal(c) ==
    IF c.type = "Fill" THEN [type |-> c.type, payload |-> Len(c.payload)]
    ELSE c

IsFillOrSolid(c) == c.type \in {"Fill", "SolidTile"}

\* The Fill and SolidTile commands of a stream, in stream order.
FillAndSolid(st) == SelectSeq(st, IsFillOrSolid)

SolidCovering(sc, c) == {i \in 0..(Len(sc) - 1) : sc[i + 1][c].kind = "solid"}

SetMax(S) == CHOOSE m \in S : \A x \in S : x <= m

\* C4 as claimed: every Fill command and the SolidTile command, element
\* order included, are those of the sequential build of the scene.
C4_FillAndSolidDeterministic ==
    phase = "done" =>
        \A s \in SequentialStreams(scene) : FillAndSolid(stream) = FillAndSolid(s)

\* C4 amended: the SolidTile command is that of the sequential build, with
\* each solid tile attributed to the greatest object index that covers it
\* solidly; the Fill commands have the sizes of the sequential build's and
\* together hold the same multiset of fill spans.
C4_SolidDeterministicFillsAsBag ==
    phase = "done" =>
        /\ \A s \in SequentialStreams(scene) :
              /\ [k \in 1..Len(FillAndSolid(stream)) |-> FillNormal(FillAndSolid(stream)[k])]
                    = [k \in 1..Len(FillAndSolid(s)) |-> FillNormal(FillAndSolid(s)[k])]
              /\ BagOf(AllFills(stream)) = BagOf(AllFills(s))
        /\ \A c \in Tiles :
              LET found == {<<p, q>> \in (1..Len(stream)) \X (1..Len(TileSeq)) :
                              /\ stream[p].type = "SolidTile"
                              /\ q <= Len(stream[p].payload)
                              /\ stream[p].payload[q].tile_x = c[1]
                              /\ stream[p].payload[q].tile_y = c[2]}
              IN  IF SolidCovering(scene, c) = {} THEN found = {}
                  ELSE /\ Cardinality(found) = 1
                       /\ \A e \in found :
                             stream[e[1]].payload[e[2]].object_index
                                 = SetMax(SolidCovering(scene, c))

\* A parallel build in which two objects cover one tile solidly and whose
\* Fill command differs from the sequential build's.
C4_Witness ==
    /\ phase = "done"
    /\ mode = "parallel"
    /\ \E c \in Tiles : Cardinality(SolidCovering(scene, c)) = 2
    /\ \E s \in SequentialStreams(scene) : FillAndSolid(stream) # FillAndSolid(s)

\* C5: in build_in_parallel, once cull_alpha_tiles has been called no
\* build_object call is running or still to run (every object's Tiler has
\* performed all its operations), and packing starts only when culling has
\* visited every record.
C5_Barrier ==
    (mode = "parallel" /\ phase \in {"cull", "pack", "done"}) =>
        /\ \A i \in Objects :
              worker[i] = "done" /\ pc[i] = ScriptLen(scene[i + 1])
        /\ phase = "pack" => alpha_tile_index = Len(alpha_tiles)

C5_Witness ==
    /\ mode = "parallel"
    /\ phase = "cull"
    /\ object_count = 2
    /\ Len(alpha_tiles) >= 3
    /\ alpha_tile_index = 1
    /\ fills # << >>

\* C6: the AlphaTile command sent by packing holds a permutation of the
\* alpha-tile buffer as culling left it, ascending in object_index.
C6_AlphaBatchSorted ==
    [][(phase = "pack" /\ alpha_tiles # << >>) =>
          /\ LastCommand(stream').type = "AlphaTile"
          /\ Len(LastCommand(stream').payload) = Len(alpha_tiles)
          /\ BagOf(LastCommand(stream').payload) = BagOf(alpha_tiles)
          /\ SortedByObjectIndex(LastCommand(stream').payload)]_vars

\* Packing is about to run on a buffer that the workers left out of order.
C6_Witness ==
    /\ phase = "pack"
    /\ mode = "parallel"
    /\ \E k \in 1..(Len(alpha_tiles) - 1) :
          alpha_tiles[k].object_index > alpha_tiles[k + 1].object_index

\* C7 (SortSpec): two records of equal object_index stand in the batch in
\* the order in which they stood in the buffer.
C7_SortStable ==
    [][(phase = "pack" /\ alpha_tiles # << >>) =>
          \A a, b \in 1..Len(alpha_tiles) :
              (a < b /\ alpha_tiles[a].object_index = alpha_tiles[b].object_index) =>
                  \E p, q \in 1..Len(LastCommand(stream').payload) :
                      /\ p < q
                      /\ LastCommand(stream').payload[p] = alpha_tiles[a]
                      /\ LastCommand(stream').payload[q] = alpha_tiles[b]]_vars

\* C8: an iteration of cull_alpha_tiles keeps the length of the buffer and
\* every record either is unchanged or has its three coordinate fields set
\* to 0xff and its other fields unchanged.
C8_CullFrame ==
    [][phase = "cull" =>
          /\ Len(alpha_tiles') = Len(alpha_tiles)
          /\ \A k \in 1..Len(alpha_tiles) :
                \/ alpha_tiles'[k] = alpha_tiles[k]
                \/ /\ IsSentinel(alpha_tiles'[k])
                   /\ alpha_tiles'[k].backdrop = alpha_tiles[k].backdrop
                   /\ alpha_tiles'[k].object_index = alpha_tiles[k].object_index
                   /\ DOMAIN alpha_tiles'[k] = DOMAIN alpha_tiles[k]]_vars

\* Culling has finished and left both culled and kept records.
C8_Witness ==
    /\ phase = "pack"
    /\ \E k, j \in 1..Len(alpha_tiles) :
          /\ IsSentinel(alpha_tiles[k])
          /\ ~IsSentinel(alpha_tiles[j])
          /\ tile_coords(alpha_tiles[j]) \in Tiles

\* Some solid tile of an object painted after object i covers tile c.
Occluded(sc, i, c) == \E j \in (i + 1)..(Len(sc) - 1) : sc[j + 1][c].kind = "solid"

\* The record of object i for the k-th tile as culling must leave it.
ExpectedRecord(sc, i, k) ==
    LET t == AlphaTile(TileSeq[k], k, i)
    IN  IF Occluded(sc, i, TileSeq[k])
        THEN [t EXCEPT !.tile_x_lo = 255, !.tile_y_lo = 255, !.tile_hi = 255]
        ELSE t

\* The records of all alpha tiles of a scene as culling must leave them.
ExpectedAlpha(sc) ==
    Flatten([i \in 1..Len(sc) |->
        Flatten([k \in 1..Len(TileSeq) |->
            IF sc[i][TileSeq[k]].kind = "alpha"
            THEN << ExpectedRecord(sc, i - 1, k) >> ELSE << >>])])

\* C9: culling overwrites the record of object i at tile c exactly when a
\* solid tile of an object of greater index covers c; the other records are
\* kept unchanged, and all of them are in the AlphaTile batch.
C9_CullExactlyHidden ==
    /\ phase = "pack" => BagOf(alpha_tiles) = BagOf(ExpectedAlpha(scene))
    /\ (phase = "done" /\ ExpectedAlpha(scene) # << >>) =>
          /\ LastCommand(stream).type = "AlphaTile"
          /\ BagOf(LastCommand(stream).payload) = BagOf(ExpectedAlpha(scene))

\* A build that culled one record and kept another that lies above a solid
\* tile of object 0.
C9_Witness ==
    /\ phase = "done"
    /\ LastCommand(stream).type = "AlphaTile"
    /\ \E k, j \in 1..Len(LastCommand(stream).payload) :
          LET batch == LastCommand(stream).payload
          IN  /\ IsSentinel(batch[k])
              /\ ~IsSentinel(batch[j])
              /\ batch[j].object_index > 0
              /\ scene[1][tile_coords(batch[j])].kind = "solid"

\* C10 (PackSpec): with N fills in the buffer when packing starts and N
\* not a multiple of MAX_FILLS_PER_BATCH, packing sends exactly one Fill,
\* holding the N mod MAX_FILLS_PER_BATCH fills from the largest multiple of
\* MAX_FILLS_PER_BATCH not exceeding N up to N, and empties the buffer;
\* with N a multiple (0 included) it sends no Fill.
C10_FillPacking ==
    [][phase = "pack" =>
          LET n == Len(fills)
              r == n % MAX_FILLS_PER_BATCH
              start == (n \div MAX_FILLS_PER_BATCH) * MAX_FILLS_PER_BATCH
              sent == Positions(Emitted, "Fill")
          IN  IF r # 0
              THEN /\ Cardinality(sent) = 1
                   /\ \A p \in sent :
                         /\ Len(Emitted[p].payload) = r
                         /\ \A j \in 1..r : Emitted[p].payload[j] = fills[start + j]
                   /\ fills' = << >>
              ELSE sent = {}]_vars

\* A build whose buffer held one whole batch and a remainder: the batch was
\* sent during tiling, the remainder by packing.
C10_Witness ==
    /\ phase = "done"
    /\ Len(stream) >= 3
    /\ stream[2].type = "Fill"
    /\ Len(stream[2].payload) = MAX_FILLS_PER_BATCH
    /\ stream[3].type = "Fill"
    /\ Len(stream[3].payload) = 2
    /\ fills = << >>

\* C11: one run of pack_alpha_tiles sends at most one Fill, at most one
\* SolidTile and at most one AlphaTile; it sends the SolidTile exactly when
\* the z-buffer yields solid tiles for the objects 0..object_count, and the
\* AlphaTile exactly when the alpha-tile buffer is not empty; afterwards the
\* alpha-tile buffer is empty.
C11_PackAtMostOnce ==
    [][phase = "pack" =>
          /\ \A type \in {"Fill", "SolidTile", "AlphaTile"} :
                Cardinality(Positions(Emitted, type)) <= 1
          /\ Positions(Emitted, "SolidTile") # {}
                <=> BuildSolidTiles(z_buffer, 0, object_count) # << >>
          /\ Positions(Emitted, "AlphaTile") # {} <=> alpha_tiles # << >>
          /\ alpha_tiles' = << >>]_vars

\* A build whose packing sent a Fill and an AlphaTile but no SolidTile.
C11_Witness ==
    /\ phase = "done"
    /\ Positions(stream, "Fill") # {}
    /\ Positions(stream, "AlphaTile") # {}
    /\ Positions(stream, "SolidTile") = {}
    /\ alpha_tiles = << >>

\* C18: for a scene without objects both modes finish, and the listener
\* has received ClearMaskFramebuffer and nothing else.
C18_EmptyScene ==
    (object_count = 0 /\ phase # "init") =>
        /\ stream = << ClearMaskFramebuffer >>
        /\ fills = << >>
        /\ alpha_tiles = << >>

C18_Witness ==
    /\ object_count = 0
    /\ phase = "done"
    /\ mode = "parallel"

\* The appends of alpha-tile records object i has made so far, each as the
\* pair of the backdrop and the object identifier it was made with.
AppendedBy(i) ==
    {<< Script(scene[i + 1])[k].arg, ObjectId(i) >> :
        k \in {j \in 1..pc[i] : Script(scene[i + 1])[j].kind = "alpha"}}

Appended == UNION {AppendedBy(i) : i \in Objects}

\* The pair that identifies a record; culling touches neither field.
RecordKey(t) == << t.backdrop, t.object_index >>

\* Every append is found in exactly one slot of s, and s has no other slot.
HoldsEachAppendOnce(s) ==
    /\ Len(s) = Cardinality(Appended)
    /\ \A a \in Appended : Cardinality({k \in 1..Len(s) : RecordKey(s[k]) = a}) = 1
    /\ BagOf([k \in 1..Len(s) |-> s[k].object_index])
          = [x \in {a[2] : a \in Appended} |->
                Cardinality({a \in Appended : a[2] = x})]

\* C16: every alpha-tile record a worker appends gets a slot of its own in
\* the buffer and is found exactly once in the AlphaTile batch, culled or
\* not, with the object index it was appended with: the batch has as many
\* records as there were appends and the same multiset of object indices.
C16_EachAppendOnce ==
    /\ phase \in {"build", "cull", "pack"} => HoldsEachAppendOnce(alpha_tiles)
    /\ (phase = "done" /\ Appended # {}) =>
          /\ LastCommand(stream).type = "AlphaTile"
          /\ HoldsEachAppendOnce(LastCommand(stream).payload)

\* A parallel build whose batch holds a culled record of object 0 and a
\* record of object 1, object 1 having appended first.
C16_Witness ==
    /\ phase = "done"
    /\ mode = "parallel"
    /\ LastCommand(stream).type = "AlphaTile"
    /\ \E k, j \in 1..Len(LastCommand(stream).payload) :
          LET batch == LastCommand(stream).payload
          IN  /\ IsSentinel(batch[k])
              /\ batch[k].object_index = 0
              /\ batch[j].object_index = 1
    /\ Len(LastCommand(stream).payload) >= 3

\* The number of alpha-tile records the objects of the scene append.
AlphaCount ==
    SeqSum([i \in 1..Len(scene) |->
              Cardinality({k \in 1..Len(TileSeq) : scene[i][TileSeq[k]].kind = "alpha"})])

\* C19 (FairSpec): every build reaches its final state; on the way every
\* object is taken once and built once to the end of its tiling, culling
\* visits the records one after the other, each once, and packing runs
\* after that.
C19_BuildTerminates ==
    /\ <>(phase = "done")
    /\ [](phase = "done" =>
            /\ \A i \in Objects : worker[i] = "done" /\ pc[i] = ScriptLen(scene[i + 1])
            /\ alpha_tile_index = AlphaCount)
    /\ [][/\ \A i \in Objects :
                /\ worker'[i] # worker[i] =>
                      << worker[i], worker'[i] >> \in
                          {<< "todo", "running" >>, << "running", "done" >>}
                /\ pc'[i] # pc[i] => pc'[i] = pc[i] + 1 /\ worker[i] = "running"
          /\ alpha_tile_index' # alpha_tile_index =>
                /\ phase = "cull"
                /\ alpha_tile_index' = alpha_tile_index + 1
                /\ \A k \in 1..Len(alpha_tiles) :
                      k # alpha_tile_index' => alpha_tiles'[k] = alpha_tiles[k]
          /\ phase' = "done" => phase = "pack"]_vars

\* A parallel build of two objects that has reached its final state after
\* culling four records.
C19_Witness ==
    /\ phase = "done"
    /\ mode = "parallel"
    /\ object_count = 2
    /\ alpha_tile_index = 4
    /\ \A i \in Objects : worker[i] = "done"

\* C14 (FlushSpec): a command sent by a step of the Tiler is a Fill batch
\* received while the objects are being built, with ClearMaskFramebuffer
\* already first in the stream; the commands of pack_alpha_tiles are sent
\* by the last step of the build, so they come after every command of the
\* Tiler, whichever worker sent it.
C14_TilerCommandsBetween ==
    [][/\ (pc' # pc /\ Emitted # << >>) =>
              /\ phase = "build" /\ phase' = "build"
              /\ stream # << >>
              /\ stream[1] = ClearMaskFramebuffer
              /\ \A k \in 1..Len(stream) :
                    stream[k].type \in {"ClearMaskFramebuffer", "Fill"}
              /\ \A k \in 1..Len(Emitted) : Emitted[k].type = "Fill"
       /\ (pc' = pc /\ Emitted # << >>) => phase = "pack" /\ phase' = "done"
       /\ phase = "done" => stream' = stream]_vars

\* A parallel build in which the batch sent during tiling was completed by
\* a fill span of object 1 and pack_alpha_tiles sent its commands after it.
C14_Witness ==
    /\ phase = "done"
    /\ mode = "parallel"
    /\ Len(stream) >= 4
    /\ stream[2].type = "Fill"
    /\ Len(stream[2].payload) = MAX_FILLS_PER_BATCH
    /\ stream[2].payload[MAX_FILLS_PER_BATCH].object_index = 1
    /\ stream[3].type = "Fill"
    /\ stream[3].payload[Len(stream[3].payload)].object_index = 0
    /\ LastCommand(stream).type = "AlphaTile"

\* The fill spans object i has appended so far.
AppendedFills(i) ==
    LET script == Script(scene[i + 1])
    IN  {FillSpan(script[k].tile, script[k].arg, ObjectId(i)) :
            k \in {j \in 1..pc[i] : script[j].kind = "fill"}}

\* C15 (FlushSpec): when the build is over, every fill span that was
\* appended to the fill buffer is in exactly one Fill command, the Fill
\* commands hold nothing else, and no Fill command ever holds more than
\* MAX_FILLS_PER_BATCH spans.
C15_EveryFillOnce ==
    /\ \A k \in 1..Len(stream) :
          stream[k].type = "Fill" => Len(stream[k].payload) <= MAX_FILLS_PER_BATCH
    /\ phase = "done" =>
          LET delivered == AllFills(stream)
          IN  /\ Range(delivered) = UNION {AppendedFills(i) : i \in Objects}
              /\ Len(delivered) = Cardinality(Range(delivered))

\* A parallel build that delivered a whole batch during tiling and a
\* remainder of two spans from packing.
C15_Witness ==
    /\ phase = "done"
    /\ mode = "parallel"
    /\ Cardinality(Positions(stream, "Fill")) = 2
    /\ Len(stream[2].payload) = MAX_FILLS_PER_BATCH
    /\ Len(stream[3].payload) = 2
    /\ \E k \in 1..MAX_FILLS_PER_BATCH : stream[2].payload[k].object_index = 1

\* The object that appended the record t: the one of the last two objects
\* of the scene that has its alpha tile at the tile the record's backdrop
\* names.
RecordOrigin(t) ==
    CHOOSE i \in {object_count - 2, object_count - 1} :
        scene[i + 1][TileSeq[t.backdrop]].kind = "alpha"

\* The records of s carry the index of their object, and the records of
\* different objects differ in it.
CarryObjectIds(s) ==
    /\ \A k \in 1..Len(s) :
          /\ s[k].object_index = RecordOrigin(s[k]) % 65536
          /\ s[k].object_index = RecordOrigin(s[k])
    /\ \A j, k \in 1..Len(s) :
          RecordOrigin(s[j]) # RecordOrigin(s[k]) =>
              s[j].object_index # s[k].object_index

\* C17 (IdSpec): the identifier build_object makes the Tiler with is the
\* object index modulo 65536, whatever the index; an index below 65536 is
\* its own identifier and two such indices have two identifiers, so that in
\* a build (of a scene within that limit) the object_index of the records
\* that culling tests and the sort compares is the index of the object in
\* the scene, and the batch is in scene order.
C17_TilerIdentifier ==
    /\ \A call \in narrowed :
          /\ call.id = call.index % 65536
          /\ call.index < 65536 => call.id = call.index
    /\ \A a, b \in narrowed :
          (a.index < 65536 /\ b.index < 65536 /\ a.index # b.index) => a.id # b.id
    /\ (phase = "build" /\ Cardinality(narrowed) < 2) =>
          \A index \in IdSamples :
              (\A call \in narrowed : call.index # index) => ENABLED NarrowIndex(index)
    /\ phase \in {"build", "cull", "pack"} => CarryObjectIds(alpha_tiles)
    /\ phase = "done" =>
          /\ LastCommand(stream).type = "AlphaTile"
          /\ Len(LastCommand(stream).payload) = 2
          /\ CarryObjectIds(LastCommand(stream).payload)
          /\ RecordOrigin(LastCommand(stream).payload[1])
                < RecordOrigin(LastCommand(stream).payload[2])

\* A parallel build of four objects is over, object 3 having appended its
\* record before object 2; the cast was applied to 65535, which keeps its
\* value, and to 65536, which becomes 0.
C17_Witness ==
    /\ phase = "done"
    /\ mode = "parallel"
    /\ object_count = 4
    /\ LastCommand(stream).payload[1].object_index = 2
    /\ LastCommand(stream).payload[2].object_index = 3
    /\ narrowed = {[index |-> 65535, id |-> 65535], [index |-> 65536, id |-> 0]}

\* C12 (PrepareSpec): prepare turns an identity 2D transform into None and
\* any other 2D transform into Transform2D holding that very matrix; no
\* Transform2D it returns holds the identity, and a 2D transform never
\* gives Perspective nor runs the clipper.
C12_Prepare2D ==
    phase = "prepared" =>
        /\ render_options.transform.kind = "Transform2D" =>
              /\ render_options.transform.transform = << 1, 0, 0, 1, 0, 0 >> =>
                    prepared.transform = [kind |-> "None"]
              /\ render_options.transform.transform # << 1, 0, 0, 1, 0, 0 >> =>
                    prepared.transform = [kind |-> "Transform2D",
                                          transform |-> render_options.transform.transform]
              /\ prepared.transform.kind # "Perspective"
              /\ ~clipper.called
        /\ prepared.transform.kind = "Transform2D" =>
              prepared.transform.transform # << 1, 0, 0, 1, 0, 0 >>

\* The identity with non-default other fields has been prepared.
C12_Witness ==
    /\ phase = "prepared"
    /\ render_options.transform = RenderTransformDefault
    /\ render_options.subpixel_aa_enabled
    /\ prepared.transform.kind = "None"

\* C20 (PrepareSpec): RenderOptions::prepare copies dilation,
\* barrel_distortion and subpixel_aa_enabled to the result unchanged for
\* every input, and preparing the default options gives the None transform.
C20_PrepareFrame ==
    phase = "prepared" =>
        /\ prepared.dilation = render_options.dilation
        /\ prepared.barrel_distortion = render_options.barrel_distortion
        /\ prepared.subpixel_aa_enabled = render_options.subpixel_aa_enabled
        /\ DOMAIN prepared =
              {"kind", "transform", "dilation", "barrel_distortion", "subpixel_aa_enabled"}
        /\ render_options = RenderOptionsDefault => prepared.transform.kind = "None"

\* Options with a perspective transform and no default field have been
\* prepared.
C20_Witness ==
    /\ phase = "prepared"
    /\ render_options.transform.kind = "Perspective"
    /\ prepared.transform.kind = "Perspective"
    /\ prepared.dilation = << 1, 2 >>
    /\ prepared.barrel_distortion.kind = "Some"
    /\ prepared.subpixel_aa_enabled

\* C13 (PrepareSpec): for a perspective transform prepare returns the
\* Perspective variant, also when the clipper returns no vertex, the clip
\* polygon being empty then; the clip polygon has one vertex for each vertex
\* the clipper returned, in the clipper's order, and the quad holds the
\* transformed and perspective-divided corners of bounds in the order
\* origin, upper right, lower right, lower left.
C13_PreparePerspective ==
    (phase = "prepared" /\ render_options.transform.kind = "Perspective") =>
        LET perspective == render_options.transform.perspective
            result == prepared.transform
            corner(p) == perspective_divide(transform_point(perspective.transform, to_3d(p)))
        IN  /\ result.kind = "Perspective"
            /\ result.perspective = perspective
            /\ clipper.called
            /\ OutsideViewVolume(TransformedPoints(perspective, bounds)) =>
                  clipper.points = << >>
            /\ clipper.points = << >> => result.clip_polygon = << >>
            /\ Len(result.clip_polygon) = Len(clipper.points)
            /\ \A k \in 1..Len(clipper.points) :
                  result.clip_polygon[k] =
                      to_2d(perspective_divide(
                          transform_point(inverse(perspective.transform),
                                          perspective_divide(clipper.points[k]))))
            /\ result.quad = << corner(origin(bounds)), corner(upper_right(bounds)),
                                corner(lower_right(bounds)), corner(lower_left(bounds)) >>

\* The bounds were thrown out of the view volume: the clipper returned
\* nothing and prepare returned Perspective with an empty clip polygon and
\* a quad of four corners.
C13_Witness ==
    /\ phase = "prepared"
    /\ prepared.transform.kind = "Perspective"
    /\ OutsideViewVolume(TransformedPoints(render_options.transform.perspective, bounds))
    /\ clipper.called
    /\ clipper.points = << >>
    /\ prepared.transform.clip_polygon = << >>
    /\ Len(prepared.transform.quad) = 4

=============================================================================
